---- MODULE Spec2Model ----
(***************************************************************************)
(* uuidify-go: the client facade (UUIDv1, UUIDv4, UUIDv7, ULID, UUIDBatch, *)
(* ULIDBatch), the request executor (doRequest, buildURL,                  *)
(* readBodySnippet) and the error types of src/client.gen.go, as a state   *)
(* machine.  One call slot per caller goroutine; the HTTP transport, the   *)
(* remote service and the caller's context are the environment.            *)
(***************************************************************************)
EXTENDS Integers, Sequences, FiniteSets, TLC

(* ------------------------------ bounds -------------------------------- *)

\* Number of call slots (goroutines) that may run concurrently in SpecConc.
NumCalls == 2

\* Longest JSON array the service returns in the model.
MaxIds == 2

\* Longest list of options passed to NewClient in SpecNew.
MaxOpts == 3

(* ------------------------- program constants -------------------------- *)

defaultBaseURL == "https://api.uuidify.io"

defaultUserAgent == "uuidify-go-sdk/1.0"

\* Upper limit of the batch count accepted by UUIDBatch / ULIDBatch.
MaxCount == 1000

(* --------------------------- input domains ---------------------------- *)

Calls == 1..NumCalls

\* Identifier strings the service may return.
Ids == {"id-a", "id-b"}

\* Version strings a caller may pass to UUIDBatch.
VersionInputs == {"v1", "v4", "v7", "ulid", "v9", ""}

\* Batch counts a caller may pass (both sides of each boundary).
CountInputs == {-1, 0, 1, 2, 1000, 1001}

\* Status codes the transport may deliver (both sides of 200 and 299).
StatusInputs == {100, 199, 200, 299, 300, 404, 500, 599}

(* ----------------------- strconv.Itoa / Atoi -------------------------- *)

DigitChars == <<"0", "1", "2", "3", "4", "5", "6", "7", "8", "9">>

RECURSIVE ItoaNat(_)
ItoaNat(n) ==
    IF n < 10 THEN <<DigitChars[n + 1]>>
    ELSE Append(ItoaNat(n \div 10), DigitChars[(n % 10) + 1])

\* strconv.Itoa: the decimal text of n, one character per element.
Itoa(n) == IF n < 0 THEN <<"-">> \o ItoaNat(0 - n) ELSE ItoaNat(n)

DigitValue(ch) == (CHOOSE d \in 1..10 : DigitChars[d] = ch) - 1

RECURSIVE AtoiNat(_)
AtoiNat(s) ==
    IF Len(s) = 0 THEN 0
    ELSE 10 * AtoiNat(SubSeq(s, 1, Len(s) - 1)) + DigitValue(s[Len(s)])

\* The integer a decimal text denotes (what the service parses out of `count`).
Atoi(s) == IF Len(s) > 0 /\ s[1] = "-" THEN 0 - AtoiNat(Tail(s)) ELSE AtoiNat(s)

\* A one-token text (version strings are kept whole).
Text(s) == <<s>>

(* ------------------------------ errors -------------------------------- *)

NoCause == "<nil>"

\* A message text: none (the empty string), a literal text, or bytes taken
\* from a response body of the given form.
NoMessage == [from |-> "none", text |-> "", form |-> "", bytes |-> <<>>]

Literal(text) == [from |-> "literal", text |-> text, form |-> "", bytes |-> <<>>]

NoError == [type |-> "nil", StatusCode |-> 0, Message |-> NoMessage, Err |-> NoCause]

\* fmt.Errorf(...) of the facade's argument checks.
ValidationError(msg) ==
    [type |-> "validation", StatusCode |-> 0, Message |-> Literal(msg), Err |-> NoCause]

\* RequestError with the cause flattened away (kept only as text).
RequestErrorFlattened(cause) ==
    [type |-> "RequestError", StatusCode |-> 0, Message |-> Literal(cause), Err |-> NoCause]

RequestError(cause) ==
    [type |-> "RequestError", StatusCode |-> 0, Message |-> NoMessage, Err |-> cause]

APIError(code, message) ==
    [type |-> "APIError", StatusCode |-> code, Message |-> message, Err |-> NoCause]

DecodeError(cause) ==
    [type |-> "DecodeError", StatusCode |-> 0, Message |-> NoMessage, Err |-> cause]

\* (*RequestError).Unwrap / (*DecodeError).Unwrap: the wrapped cause;
\* APIError and the validation errors wrap nothing.
Unwrap(e) ==
    IF e.type \in {"RequestError", "DecodeError"} THEN e.Err ELSE NoCause

(* ------------------------------ byte texts --------------------------- *)

\* A text as runs of equal bytes: Run(ch, n) is n bytes ch in a row.  No run
\* is empty and neighbouring runs differ in their byte.
Run(ch, n) == [ch |-> ch, n |-> n]

\* The bytes strings.TrimSpace removes.
WhiteSpace == {" ", "\n"}

\* The text of a JSON body, kept whole as one token: it has no white space
\* around it and is shorter than the snippet limit.
JSONText == <<Run("<json>", 1)>>

\* The limit readBodySnippet puts on the bytes it reads.
snippetLimit == 4096

\* io.ReadAll(io.LimitReader(r, n)): the first n bytes of the stream.
RECURSIVE LimitReader(_, _)
LimitReader(bytes, n) ==
    IF n = 0 \/ Len(bytes) = 0 THEN <<>>
    ELSE IF Head(bytes).n >= n THEN <<Run(Head(bytes).ch, n)>>
    ELSE <<Head(bytes)>> \o LimitReader(Tail(bytes), n - Head(bytes).n)

RECURSIVE TrimLeft(_)
TrimLeft(bytes) ==
    IF Len(bytes) > 0 /\ Head(bytes).ch \in WhiteSpace THEN TrimLeft(Tail(bytes)) ELSE bytes

RECURSIVE TrimRight(_)
TrimRight(bytes) ==
    IF Len(bytes) > 0 /\ bytes[Len(bytes)].ch \in WhiteSpace
    THEN TrimRight(SubSeq(bytes, 1, Len(bytes) - 1)) ELSE bytes

\* strings.TrimSpace
TrimSpace(bytes) == TrimRight(TrimLeft(bytes))

(* --------------------- JSON texts (response bodies) ------------------- *)

\* Elements of a JSON array: string literals and, for the type-mismatch
\* case, a number literal.
StrElem(s) == [t |-> "string", s |-> s]

NumElem == [t |-> "number", s |-> ""]

Elems == {StrElem(s) : s \in Ids} \cup {NumElem}

Arrays == UNION {[1..n -> Elems] : n \in 0..MaxIds}

\* Values of an object member.
JString(s) == [t |-> "string", s |-> s, a |-> <<>>]

JNumber == [t |-> "number", s |-> "", a |-> <<>>]

JNull == [t |-> "null", s |-> "", a |-> <<>>]

JArray(a) == [t |-> "array", s |-> "", a |-> a]

\* The values the model puts under a string-typed name and under a
\* list-typed name: the right type, null, and wrong types.
StringNames == {"uuid", "ulid"}

ListNames == {"uuids", "ulids"}

MemberValues(name) ==
    IF name \in StringNames
    THEN {JString(s) : s \in Ids} \cup {JNumber, JNull, JArray(<<>>)}
    ELSE {JArray(a) : a \in Arrays} \cup {JString("id-a"), JNumber, JNull}

\* A member name no result shape declares.
UnknownName == "error"

NoMembers == [n \in {} |-> JNull]

\* Objects with no member or one member of the wire protocol.
CoreObjects ==
    {NoMembers} \cup
    UNION {{[n \in {k} |-> v] : v \in MemberValues(k)} : k \in StringNames \cup ListNames}

\* The same objects with a further member under the undeclared name.
ExtendedObjects ==
    {[n \in (DOMAIN m) \cup {UnknownName} |->
          IF n = UnknownName THEN JString("id-a") ELSE m[n]] : m \in CoreObjects}

Objects == CoreObjects \cup ExtendedObjects

\* A top-level JSON value: an object, or a non-object (null, string, number, array).
JObject(m) == [t |-> "object", m |-> m]

JOther(t) == [t |-> t, m |-> NoMembers]

TopValues == {JObject(m) : m \in Objects} \cup {JOther(t) : t \in {"null", "string", "number", "array"}}

\* A body as the byte stream delivers it:
\*   empty      no bytes at all
\*   blank      white space only
\*   truncated  the stream ends inside the first JSON value
\*   syntax     the first JSON value is not well formed
\*   value      a complete first JSON value; trailing tells whether further
\*              non-space bytes follow it in the stream
\*   text       plain text that is no JSON, given by its bytes.
EmptyBody == [form |-> "empty", val |-> JOther("null"), trailing |-> FALSE, bytes |-> <<>>]

BlankBody ==
    [form |-> "blank", val |-> JOther("null"), trailing |-> FALSE,
     bytes |-> <<Run(" ", 1), Run("\n", 1)>>]

TruncatedBody ==
    [form |-> "truncated", val |-> JOther("null"), trailing |-> FALSE, bytes |-> JSONText]

SyntaxBody == [form |-> "syntax", val |-> JOther("null"), trailing |-> FALSE, bytes |-> JSONText]

ValueBody(v, trailing) ==
    [form |-> "value", val |-> v, trailing |-> trailing, bytes |-> JSONText]

TextBody(bytes) == [form |-> "text", val |-> JOther("null"), trailing |-> FALSE, bytes |-> bytes]

Bodies ==
    {EmptyBody, BlankBody, TruncatedBody, SyntaxBody}
        \cup {ValueBody(v, FALSE) : v \in TopValues}
        \cup {ValueBody(JObject(m), TRUE) : m \in CoreObjects}

\* Is the whole body one well-formed JSON text?
WellFormedJSON(body) == body.form = "value" /\ ~body.trailing

(* ------------------------- result shapes ------------------------------ *)

\* A Go []string: nil or allocated, with its elements.
NilSlice == [nil |-> TRUE, elems |-> <<>>]

Slice(elems) == [nil |-> FALSE, elems |-> elems]

\* The four response structs: the JSON name and the Go type of their field.
UUIDResponse == [json |-> "uuid", kind |-> "string"]

UUIDListResponse == [json |-> "uuids", kind |-> "list"]

ULIDResponse == [json |-> "ulid", kind |-> "string"]

ULIDListResponse == [json |-> "ulids", kind |-> "list"]

NoHolder == [json |-> "", kind |-> "none"]

\* `var resp T`: the zero value of a response struct.
ZeroValue == [str |-> "", slice |-> NilSlice]

(* ----------------- encoding/json: Decoder.Decode(v) ------------------- *)

ErrUnexpectedEOF == "unexpected EOF"

EOF == "EOF"

SyntaxError == "json: invalid character"

UnmarshalTypeError == "json: cannot unmarshal"

ReadOK == "ok"

\* Unmarshal of one array into a []string: every element gets a slot, a
\* non-string element leaves its slot "" and records a type error.
ArrayStrings(a) == [k \in 1..Len(a) |-> IF a[k].t = "string" THEN a[k].s ELSE ""]

ArrayHasMismatch(a) == \E k \in 1..Len(a) : a[k].t # "string"

\* Unmarshal that rejects an object without the member T declares.
UnmarshalObjectStrict(m, T, h) ==
    IF T.json \notin DOMAIN m THEN [err |-> UnmarshalTypeError, v |-> h]
    ELSE LET mv == m[T.json]
         IN  CASE mv.t = "null" -> [err |-> NoCause, v |-> h]
               [] T.kind = "string" /\ mv.t = "string" ->
                      [err |-> NoCause, v |-> [h EXCEPT !.str = mv.s]]
               [] T.kind = "list" /\ mv.t = "array" ->
                      [err |-> IF ArrayHasMismatch(mv.a) THEN UnmarshalTypeError ELSE NoCause,
                       v   |-> [h EXCEPT !.slice = Slice(ArrayStrings(mv.a))]]
               [] OTHER -> [err |-> UnmarshalTypeError, v |-> h]

\* Unmarshal of an object into the struct T, starting from holder h.
UnmarshalObject(m, T, h) ==
    IF T.json \notin DOMAIN m THEN [err |-> NoCause, v |-> h]
    ELSE LET mv == m[T.json]
         IN  CASE mv.t = "null" -> [err |-> NoCause, v |-> h]
               [] T.kind = "string" /\ mv.t = "string" ->
                      [err |-> NoCause, v |-> [h EXCEPT !.str = mv.s]]
               [] T.kind = "list" /\ mv.t = "array" ->
                      [err |-> IF ArrayHasMismatch(mv.a) THEN UnmarshalTypeError ELSE NoCause,
                       v   |-> [h EXCEPT !.slice = Slice(ArrayStrings(mv.a))]]
               [] OTHER -> [err |-> UnmarshalTypeError, v |-> h]

\* json.NewDecoder(body).Decode(&h): reads the first JSON value of the
\* stream and unmarshals it; bytes after that value are not read.  `read`
\* is what reading the stream yields: ReadOK, or the error of a failed read.
Decode(body, read, T, h) ==
    CASE read # ReadOK -> [err |-> read, v |-> h]
      [] body.form \in {"empty", "blank"} -> [err |-> EOF, v |-> h]
      [] body.form = "truncated" -> [err |-> ErrUnexpectedEOF, v |-> h]
      [] body.form = "syntax" -> [err |-> SyntaxError, v |-> h]
      [] body.form = "text" ->
             [err |-> IF TrimSpace(body.bytes) = <<>> THEN EOF ELSE SyntaxError, v |-> h]
      [] body.val.t = "null" -> [err |-> NoCause, v |-> h]
      [] body.val.t = "object" -> UnmarshalObject(body.val.m, T, h)
      [] OTHER -> [err |-> UnmarshalTypeError, v |-> h]

(* --------------------------- net/url ---------------------------------- *)

\* url.QueryEscape / QueryUnescape, character by character.
EscapeChar(ch) ==
    CASE ch = " " -> "+"
      [] ch = "&" -> "%26"
      [] ch = "+" -> "%2B"
      [] ch = "=" -> "%3D"
      [] OTHER -> ch

UnescapeChar(ch) ==
    CASE ch = "+" -> " "
      [] ch = "%26" -> "&"
      [] ch = "%2B" -> "+"
      [] ch = "%3D" -> "="
      [] OTHER -> ch

QueryEscape(text) == [k \in 1..Len(text) |-> EscapeChar(text[k])]

QueryUnescape(text) == [k \in 1..Len(text) |-> UnescapeChar(text[k])]

\* Parameter names in ascending byte order (url.Values.Encode sorts by key).
NameOrder == <<"", "&", "count", "version">>

\* url.Values{}: no parameter.
NoValues == [k \in {} |-> <<>>]

\* url.Values.Set(key, value)
Set(values, key, value) ==
    [k \in (DOMAIN values) \cup {key} |-> IF k = key THEN value ELSE values[k]]

\* url.Values.Encode: key=value pairs, sorted by key, keys and values escaped.
Encode(values) ==
    LET keys == SelectSeq(NameOrder, LAMBDA k : k \in DOMAIN values)
    IN  [k \in 1..Len(keys) |-> <<EscapeChar(keys[k]), QueryEscape(values[keys[k]])>>]

\* The orders in which `for key, value := range query` may visit the keys
\* of the map: Go leaves the iteration order of a map unspecified.
IterationOrders(query) ==
    {o \in [1..Cardinality(DOMAIN query) -> DOMAIN query] :
        \A a, b \in 1..Cardinality(DOMAIN query) : a # b => o[a] # o[b]}

\* The loop of buildURL over the keys in the order visited: values.Set for
\* every key but the empty one.
RECURSIVE RangeSet(_, _, _)
RangeSet(values, query, order) ==
    IF Len(order) = 0 THEN values
    ELSE RangeSet(IF Head(order) = "" THEN values
                  ELSE Set(values, Head(order), query[Head(order)]),
                  query, Tail(order))

\* Base addresses a Client may hold.
TestBaseURL == "http://127.0.0.1:8080"

\* A base address url.Parse rejects (missing protocol scheme).
BadBaseURL == ":bad"

\* A base address whose built target http.NewRequestWithContext rejects.
OddBaseURL == "odd"

ParseError == "parse: missing protocol scheme"

NewRequestError == "net/http: invalid request target"

NoURL == [base |-> "", path |-> "", RawQuery |-> <<>>]

\* buildURL writing each parameter to the query string as the loop visits it.
buildURLInVisitOrder(c, query, order) ==
    LET base == IF c.BaseURL = "" THEN defaultBaseURL ELSE c.BaseURL
        keys == SelectSeq(order, LAMBDA k : k # "")
    IN  IF base = BadBaseURL THEN [err |-> ParseError, url |-> NoURL, query |-> query]
        ELSE [err |-> NoCause,
              url |-> [base |-> base, path |-> "/",
                       RawQuery |-> [k \in 1..Len(keys) |->
                                        <<EscapeChar(keys[k]), QueryEscape(query[keys[k]])>>]],
              query |-> query]

\* (*Client).buildURL: the target for a query map whose keys the loop
\* visits in the given order, or the parse error; query is the caller's map
\* as buildURL leaves it.  The base addresses of the model have no query
\* string of their own, so parsed.Query() starts empty.
buildURL(c, query, order) ==
    LET base == IF c.BaseURL = "" THEN defaultBaseURL ELSE c.BaseURL
        values == RangeSet(NoValues, query, order)
    IN  IF base = BadBaseURL THEN [err |-> ParseError, url |-> NoURL, query |-> query]
        ELSE [err |-> NoCause,
              url |-> [base |-> base, path |-> "/",
                       RawQuery |-> IF DOMAIN query # {} THEN Encode(values) ELSE <<>>],
              query |-> query]

\* What the service reads back: r.URL.Query().Has(name) / .Get(name).
QueryHas(url, name) == \E k \in 1..Len(url.RawQuery) : UnescapeChar(url.RawQuery[k][1]) = name

QueryGet(url, name) ==
    LET k == CHOOSE j \in 1..Len(url.RawQuery) : UnescapeChar(url.RawQuery[j][1]) = name
    IN  QueryUnescape(url.RawQuery[k][2])

(* ------------------------- net/http pieces ---------------------------- *)

\* http.StatusText for the status codes of the model ("" for unassigned codes).
StatusText(code) ==
    CASE code = 100 -> "Continue"
      [] code = 200 -> "OK"
      [] code = 300 -> "Multiple Choices"
      [] code = 404 -> "Not Found"
      [] code = 500 -> "Internal Server Error"
      [] OTHER -> ""

NoRequest == [Method |-> "", URL |-> NoURL, UserAgent |-> ""]

NoResponse == [StatusCode |-> 0, Body |-> EmptyBody]

\* Errors http.Client.Do returns for reasons other than the context.
TransportErrors == {"dial tcp: connection refused", "net/http: timeout awaiting response headers"}

ContextCanceled == "context canceled"

\* Errors a read of the response body may return.
ReadReset == "read: connection reset by peer"

(* ------------------------------ Client -------------------------------- *)

NilClient == [isNil |-> TRUE, BaseURL |-> "", HTTPClient |-> "nil", UserAgent |-> ""]

ClientOf(base, http, ua) ==
    [isNil |-> FALSE, BaseURL |-> base, HTTPClient |-> http, UserAgent |-> ua]

\* &http.Client{Timeout: defaultHTTPTimeout}
DefaultHTTPClient == "default"

\* Options: WithBaseURL(url), WithHTTPClient(client), WithUserAgent(ua), or a nil option.
WithBaseURL(url) == [opt |-> "WithBaseURL", arg |-> url]

WithHTTPClient(hc) == [opt |-> "WithHTTPClient", arg |-> hc]

WithUserAgent(ua) == [opt |-> "WithUserAgent", arg |-> ua]

NilOption == [opt |-> "nil", arg |-> ""]

ApplyOption(c, o) ==
    CASE o.opt = "WithBaseURL" -> [c EXCEPT !.BaseURL = o.arg]
      [] o.opt = "WithHTTPClient" -> [c EXCEPT !.HTTPClient = o.arg]
      [] o.opt = "WithUserAgent" -> [c EXCEPT !.UserAgent = o.arg]
      [] OTHER -> c

RECURSIVE ApplyOptions(_, _)
ApplyOptions(c, opts) ==
    IF Len(opts) = 0 THEN c ELSE ApplyOptions(ApplyOption(c, Head(opts)), Tail(opts))

\* NewClient without the second round of defaults.
NewClientOptionsOnly(opts) ==
    ApplyOptions(ClientOf(defaultBaseURL, DefaultHTTPClient, defaultUserAgent), opts)

\* NewClient(opts...): defaults, then the options in order, then the
\* defaults again for every field left empty.
NewClient(opts) ==
    LET c == ApplyOptions(ClientOf(defaultBaseURL, DefaultHTTPClient, defaultUserAgent), opts)
    IN  ClientOf(IF c.BaseURL = "" THEN defaultBaseURL ELSE c.BaseURL,
                 IF c.HTTPClient = "nil" THEN DefaultHTTPClient ELSE c.HTTPClient,
                 IF c.UserAgent = "" THEN defaultUserAgent ELSE c.UserAgent)

(* ------------------------------ state --------------------------------- *)

VARIABLES
    client,   \* the Client every call goes through (BaseURL, HTTPClient, UserAgent)
    options,  \* the options NewClient was given (<<>> for a Client not built by it)
    ctx,      \* per call: the caller's context: "nil", "live" or "cancelled"
    pc,       \* per call: "idle", "sending" (inside HTTPClient.Do), "responded", "done"
    call,     \* per call: the operation invoked, its arguments and its result holder
    req,      \* per call: the request handed to the transport
    resp,     \* per call: the response the transport returned
    read,     \* per call: what reading the response body yielded
    ret,      \* per call: the values the operation returned
    origin,   \* per call: the error raised before any response was obtained
    sends,    \* per call: how many times the transport was invoked
    closed    \* per call: how many times the response body was closed

vars == <<client, options, ctx, pc, call, req, resp, read, ret, origin, sends, closed>>

NoCall == [op |-> "none", version |-> "", count |-> 0, query |-> NoValues, T |-> NoHolder,
           shape |-> "none", ctxAtSend |-> "live"]

NoReturn == [str |-> "", slice |-> NilSlice, err |-> NoError]

(* ------------------------- facade helpers ----------------------------- *)

\* isSupportedUUIDVersion with "ulid" let through.
isSupportedAnyVersion(version) == version \in {"v1", "v4", "v7", "ulid"}

\* isSupportedUUIDVersion
isSupportedUUIDVersion(version) == version \in {"v1", "v4", "v7"}

\* The count check with the lower boundary off by one.
CountOutOfRangeOffByOne(count) == count < 0 \/ count > MaxCount

\* The count check of UUIDBatch and ULIDBatch.
CountOutOfRange(count) == count <= 0 \/ count > MaxCount

\* The single-fetch query with a count parameter added.
SingleQueryWithCount(version) ==
    [k \in {"version", "count"} |-> IF k = "version" THEN Text(version) ELSE Itoa(1)]

\* map[string]string{"version": version}
SingleQuery(version) == [k \in {"version"} |-> Text(version)]

\* The batch query with the count parameter left out.
BatchQueryVersionOnly(version, count) == [k \in {"version"} |-> Text(version)]

\* map[string]string{"version": version, "count": strconv.Itoa(count)}
BatchQuery(version, count) ==
    [k \in {"version", "count"} |-> IF k = "version" THEN Text(version) ELSE Itoa(count)]

\* The facade returning what the holder has collected even with an error.
FacadeReturnKeepsHolder(shape, err, v) ==
    CASE shape = "single" -> [str |-> v.str, slice |-> NilSlice, err |-> err]
      [] shape = "one" /\ err.type # "nil" -> [str |-> "", slice |-> NilSlice, err |-> err]
      [] shape = "one" -> [str |-> "", slice |-> Slice(<<v.str>>), err |-> err]
      [] OTHER -> [str |-> "", slice |-> v.slice, err |-> err]

\* The return statements of the facade, by the shape of the result:
\*   single  return resp.UUID, nil      /  return "", err
\*   one     return []string{resp.UUID}, nil  /  return nil, err
\*   list    return resp.UUIDs, nil     /  return nil, err
FacadeReturn(shape, err, v) ==
    CASE err.type # "nil" -> [str |-> "", slice |-> NilSlice, err |-> err]
      [] shape = "single" -> [str |-> v.str, slice |-> NilSlice, err |-> NoError]
      [] shape = "one" -> [str |-> "", slice |-> Slice(<<v.str>>), err |-> NoError]
      [] OTHER -> [str |-> "", slice |-> v.slice, err |-> NoError]

(* ------------------------------ doRequest ----------------------------- *)

ClientIsNil == "client is nil"

\* PrepareRequest without the default for an empty UserAgent.
PrepareRequestRawUserAgent(c, query, order) ==
    LET built == buildURL(c, query, order)
    IN  CASE c.isNil ->
                [err |-> ClientIsNil, req |-> NoRequest, client |-> c, query |-> query]
          [] built.err # NoCause ->
                [err |-> built.err, req |-> NoRequest, client |-> c, query |-> built.query]
          [] c.BaseURL = OddBaseURL ->
                [err |-> NewRequestError, req |-> NoRequest, client |-> c, query |-> built.query]
          [] OTHER ->
                [err |-> NoCause,
                 req |-> [Method |-> "GET", URL |-> built.url, UserAgent |-> c.UserAgent],
                 client |-> IF c.HTTPClient = "nil"
                            THEN [c EXCEPT !.HTTPClient = DefaultHTTPClient] ELSE c,
                 query |-> built.query]

\* doRequest from its entry to the call of c.HTTPClient.Do(req): the nil
\* check, buildURL, NewRequestWithContext, the User-Agent header and the
\* lazy HTTPClient.  err is the cause of an early return.  The lazy
\* HTTPClient is an unsynchronised write of one pointer-sized field: callers
\* racing on it each store a client of the same configuration and each then
\* load a non-nil one, so every outcome of the race is the value written here.
PrepareRequest(c, query, order) ==
    LET built == buildURL(c, query, order)
    IN  CASE c.isNil ->
                [err |-> ClientIsNil, req |-> NoRequest, client |-> c, query |-> query]
          [] built.err # NoCause ->
                [err |-> built.err, req |-> NoRequest, client |-> c, query |-> built.query]
          [] c.BaseURL = OddBaseURL ->
                [err |-> NewRequestError, req |-> NoRequest, client |-> c, query |-> built.query]
          [] OTHER ->
                [err |-> NoCause,
                 req |-> [Method |-> "GET", URL |-> built.url,
                          UserAgent |-> IF c.UserAgent = "" THEN defaultUserAgent
                                        ELSE c.UserAgent],
                 client |-> IF c.HTTPClient = "nil"
                            THEN [c EXCEPT !.HTTPClient = DefaultHTTPClient] ELSE c,
                 query |-> built.query]

\* The status check with the upper boundary off by one.
IsErrorStatusOffByOne(code) == code < 200 \/ code > 300

\* resp.StatusCode < 200 || resp.StatusCode >= 300
IsErrorStatus(code) == code < 200 \/ code >= 300

\* readBodySnippet without strings.TrimSpace.
readBodySnippetUntrimmed(body, rd) ==
    LET data == LimitReader(body.bytes, snippetLimit)
    IN  IF rd # ReadOK \/ data = <<>> THEN NoMessage
        ELSE [from |-> "body", text |-> "", form |-> body.form, bytes |-> data]

\* readBodySnippet: the trimmed text of the first snippetLimit bytes of the
\* body, "" when the read fails.
readBodySnippet(body, rd) ==
    LET data == TrimSpace(LimitReader(body.bytes, snippetLimit))
    IN  IF rd # ReadOK \/ data = <<>> THEN NoMessage
        ELSE [from |-> "body", text |-> "", form |-> body.form, bytes |-> data]

\* The message of an APIError: the snippet, or the reason text of the code.
APIMessage(code, body, rd) ==
    LET message == readBodySnippet(body, rd)
    IN  IF message = NoMessage THEN Literal(StatusText(code)) ELSE message

\* doRequest from the return of Do with a response: the status check, then
\* the decode into the holder of type T.
HandleResponse(r, rd, T) ==
    LET d == Decode(r.Body, rd, T, ZeroValue)
    IN  CASE IsErrorStatus(r.StatusCode) ->
                [err |-> APIError(r.StatusCode, APIMessage(r.StatusCode, r.Body, rd)),
                 v |-> ZeroValue]
          [] T.kind = "none" -> [err |-> NoError, v |-> ZeroValue]
          [] d.err # NoCause ->
                [err |-> DecodeError(IF d.err = EOF THEN ErrUnexpectedEOF ELSE d.err),
                 v |-> d.v]
          [] OTHER -> [err |-> NoError, v |-> d.v]

(* ------------------------------ actions ------------------------------- *)

\* A facade method rejects its arguments: return nil, fmt.Errorf(...).
Reject(i, op, version, count, msg) ==
    /\ call' = [call EXCEPT ![i] = [op |-> op, version |-> version, count |-> count,
                                    query |-> NoValues, T |-> NoHolder, shape |-> "list",
                                    ctxAtSend |-> ctx[i]]]
    /\ ret' = [ret EXCEPT ![i] = FacadeReturn("list", ValidationError(msg), ZeroValue)]
    /\ pc' = [pc EXCEPT ![i] = "done"]
    /\ UNCHANGED <<client, options, ctx, req, resp, read, origin, sends, closed>>

\* A facade method calls c.doRequest(ctx, query, &resp): either doRequest
\* returns early with a RequestError, or the request reaches the transport.
Request(i, op, version, count, query, T, shape) ==
    \E order \in IterationOrders(query) :
    LET p == PrepareRequest(client, query, order)
    IN  /\ call' = [call EXCEPT ![i] = [op |-> op, version |-> version, count |-> count,
                                        query |-> p.query, T |-> T, shape |-> shape,
                                        ctxAtSend |-> ctx[i]]]
        /\ client' = p.client
        /\ IF p.err # NoCause
           THEN /\ origin' = [origin EXCEPT ![i] = p.err]
                /\ ret' = [ret EXCEPT ![i] = FacadeReturn(shape, RequestError(p.err), ZeroValue)]
                /\ pc' = [pc EXCEPT ![i] = "done"]
                /\ UNCHANGED <<req, sends>>
           ELSE /\ req' = [req EXCEPT ![i] = p.req]
                /\ sends' = [sends EXCEPT ![i] = @ + 1]
                /\ pc' = [pc EXCEPT ![i] = "sending"]
                /\ UNCHANGED <<ret, origin>>
        /\ UNCHANGED <<options, ctx, resp, read, closed>>

UUIDv1(i) ==
    /\ pc[i] = "idle"
    /\ Request(i, "UUIDv1", "v1", 0, SingleQuery("v1"), UUIDResponse, "single")

UUIDv4(i) ==
    /\ pc[i] = "idle"
    /\ Request(i, "UUIDv4", "v4", 0, SingleQuery("v4"), UUIDResponse, "single")

UUIDv7(i) ==
    /\ pc[i] = "idle"
    /\ Request(i, "UUIDv7", "v7", 0, SingleQuery("v7"), UUIDResponse, "single")

ULID(i) ==
    /\ pc[i] = "idle"
    /\ Request(i, "ULID", "ulid", 0, SingleQuery("ulid"), ULIDResponse, "single")

\* UUIDBatch with the count checked before the version.
UUIDBatchCountFirst(i, version, count) ==
    /\ pc[i] = "idle"
    /\ IF CountOutOfRange(count)
       THEN Reject(i, "UUIDBatch", version, count, "count must be between 1 and 1000")
       ELSE IF ~isSupportedUUIDVersion(version)
       THEN Reject(i, "UUIDBatch", version, count, "version must be one of v1, v4, v7")
       ELSE IF count = 1
       THEN Request(i, "UUIDBatch", version, count, BatchQuery(version, count),
                    UUIDResponse, "one")
       ELSE Request(i, "UUIDBatch", version, count, BatchQuery(version, count),
                    UUIDListResponse, "list")

UUIDBatch(i, version, count) ==
    /\ pc[i] = "idle"
    /\ IF ~isSupportedUUIDVersion(version)
       THEN Reject(i, "UUIDBatch", version, count, "version must be one of v1, v4, v7")
       ELSE IF CountOutOfRange(count)
       THEN Reject(i, "UUIDBatch", version, count, "count must be between 1 and 1000")
       ELSE IF count = 1
       THEN Request(i, "UUIDBatch", version, count, BatchQuery(version, count),
                    UUIDResponse, "one")
       ELSE Request(i, "UUIDBatch", version, count, BatchQuery(version, count),
                    UUIDListResponse, "list")

ULIDBatch(i, count) ==
    /\ pc[i] = "idle"
    /\ IF CountOutOfRange(count)
       THEN Reject(i, "ULIDBatch", "ulid", count, "count must be between 1 and 1000")
       ELSE IF count = 1
       THEN Request(i, "ULIDBatch", "ulid", count, BatchQuery("ulid", count),
                    ULIDResponse, "one")
       ELSE Request(i, "ULIDBatch", "ulid", count, BatchQuery("ulid", count),
                    ULIDListResponse, "list")

\* doRequest called with no result holder (v == nil): the same steps, and
\* after the status check it returns nil without reading the body.
doRequestNilHolder(i) ==
    /\ pc[i] = "idle"
    /\ Request(i, "doRequest", "v4", 0, SingleQuery("v4"), NoHolder, "none")

\* c.buildURL(query) called on its own with the map call i holds; the loop
\* visits the keys of the map in the given order.
buildURLCall(i, order) ==
    /\ pc[i] = "idle"
    /\ order \in IterationOrders(call[i].query)
    /\ LET built == buildURL(client, call[i].query, order)
       IN  /\ call' = [call EXCEPT ![i].op = "buildURL", ![i].query = built.query]
           /\ req' = [req EXCEPT ![i].URL = built.url]
           /\ origin' = [origin EXCEPT ![i] = built.err]
    /\ pc' = [pc EXCEPT ![i] = "done"]
    /\ UNCHANGED <<client, options, ctx, resp, read, ret, sends, closed>>

\* The errors c.HTTPClient.Do may return for call i: a transport failure at
\* any time, the context's error once the context is cancelled.
DoErrors(i) ==
    TransportErrors \cup (IF ctx[i] = "cancelled" THEN {ContextCanceled} ELSE {})

\* DoFails with one retry: the first error of the transport makes the call
\* hand the same request to the transport again.
DoFailsRetryOnce(i, e) ==
    /\ pc[i] = "sending"
    /\ e \in DoErrors(i)
    /\ IF sends[i] < 2
       THEN /\ sends' = [sends EXCEPT ![i] = @ + 1]
            /\ UNCHANGED <<ret, origin, pc>>
       ELSE /\ origin' = [origin EXCEPT ![i] = e]
            /\ ret' = [ret EXCEPT ![i] = FacadeReturn(call[i].shape, RequestError(e), ZeroValue)]
            /\ pc' = [pc EXCEPT ![i] = "done"]
            /\ UNCHANGED sends
    /\ UNCHANGED <<client, options, ctx, call, req, resp, read, closed>>

\* c.HTTPClient.Do(req) returns an error: doRequest wraps it in a
\* RequestError and the facade returns the zero result with it.
DoFails(i, e) ==
    /\ pc[i] = "sending"
    /\ e \in DoErrors(i)
    /\ origin' = [origin EXCEPT ![i] = e]
    /\ ret' = [ret EXCEPT ![i] = FacadeReturn(call[i].shape, RequestError(e), ZeroValue)]
    /\ pc' = [pc EXCEPT ![i] = "done"]
    /\ UNCHANGED <<client, options, ctx, call, req, resp, read, sends, closed>>

\* c.HTTPClient.Do(req) returns a response (status line and headers read,
\* body still unread).  The transport refuses a context that was already
\* cancelled when the request was handed to it.
DoReturns(i, status, body) ==
    /\ pc[i] = "sending"
    /\ call[i].ctxAtSend # "cancelled"
    /\ resp' = [resp EXCEPT ![i] = [StatusCode |-> status, Body |-> body]]
    /\ pc' = [pc EXCEPT ![i] = "responded"]
    /\ UNCHANGED <<client, options, ctx, call, req, read, ret, origin, sends, closed>>

\* What a read of the body of call i may yield.
ReadOutcomes(i) ==
    {ReadOK, ReadReset} \cup (IF ctx[i] = "cancelled" THEN {ContextCanceled} ELSE {})

\* Finish with the response kept in one place shared by all calls: a call
\* handles the response of the first call that has one.
FinishShared(i, rd) ==
    /\ pc[i] = "responded"
    /\ rd \in ReadOutcomes(i)
    /\ LET j == CHOOSE k \in Calls : resp[k].StatusCode # 0 /\ \A l \in 1..(k - 1) : resp[l].StatusCode = 0
           h == HandleResponse(resp[j], rd, call[i].T)
       IN  ret' = [ret EXCEPT ![i] = FacadeReturn(call[i].shape, h.err, h.v)]
    /\ read' = [read EXCEPT ![i] = rd]
    /\ closed' = [closed EXCEPT ![i] = @ + 1]
    /\ pc' = [pc EXCEPT ![i] = "done"]
    /\ UNCHANGED <<client, options, ctx, call, req, resp, origin, sends>>

\* Finish with the body closed on the successful return only.
FinishCloseOnSuccess(i, rd) ==
    /\ pc[i] = "responded"
    /\ rd \in ReadOutcomes(i)
    /\ LET h == HandleResponse(resp[i], rd, call[i].T)
       IN  /\ ret' = [ret EXCEPT ![i] = FacadeReturn(call[i].shape, h.err, h.v)]
           /\ closed' = [closed EXCEPT ![i] = IF h.err.type = "nil" THEN @ + 1 ELSE @]
    /\ read' = [read EXCEPT ![i] = rd]
    /\ pc' = [pc EXCEPT ![i] = "done"]
    /\ UNCHANGED <<client, options, ctx, call, req, resp, origin, sends>>

\* The rest of doRequest and the facade's return: the status check, the
\* body read (snippet or decode), the deferred resp.Body.Close().
Finish(i, rd) ==
    /\ pc[i] = "responded"
    /\ rd \in ReadOutcomes(i)
    /\ LET h == HandleResponse(resp[i], rd, call[i].T)
       IN  ret' = [ret EXCEPT ![i] = FacadeReturn(call[i].shape, h.err, h.v)]
    /\ read' = [read EXCEPT ![i] = rd]
    /\ closed' = [closed EXCEPT ![i] = @ + 1]
    /\ pc' = [pc EXCEPT ![i] = "done"]
    /\ UNCHANGED <<client, options, ctx, call, req, resp, origin, sends>>

\* The caller cancels the context of call i (or its deadline passes) before
\* the call has returned.
Cancel(i) ==
    /\ pc[i] # "done"
    /\ ctx[i] = "live"
    /\ ctx' = [ctx EXCEPT ![i] = "cancelled"]
    /\ UNCHANGED <<client, options, pc, call, req, resp, read, ret, origin, sends, closed>>

(* --------------------------- specifications --------------------------- *)

CustomHTTPClient == "custom"

\* The option lists NewClient is called with in Spec: none, and one of each.
BuiltWith ==
    {<<>>,
     <<WithBaseURL(TestBaseURL), WithHTTPClient(CustomHTTPClient),
       WithUserAgent("uuidify-go-tests")>>}

\* Clients not built by NewClient: a nil *Client and struct literals (the
\* fields are exported).
Literals ==
    {NilClient,
     ClientOf("", "nil", ""),
     ClientOf(BadBaseURL, CustomHTTPClient, "uuidify-go-tests"),
     ClientOf(OddBaseURL, CustomHTTPClient, "uuidify-go-tests")}

\* The Client is NewClient(opts...) for one of the option lists, or one of
\* the literals.
InitClient(lists, literals) ==
    \/ \E opts \in lists : client = NewClient(opts) /\ options = opts
    \/ client \in literals /\ options = <<>>

\* Plain-text bodies: short, with white space around the text, as long as
\* the snippet limit, longer, and with the limit falling in white space.
TextBodies ==
    {TextBody(<<Run("x", 3)>>),
     TextBody(<<Run(" ", 1), Run("x", 3), Run("\n", 2)>>),
     TextBody(<<Run("x", snippetLimit)>>),
     TextBody(<<Run(" ", 1), Run("x", snippetLimit)>>),
     TextBody(<<Run("x", snippetLimit - 2), Run(" ", 2), Run("y", 1)>>),
     TextBody(<<Run(" ", snippetLimit), Run("x", 1)>>)}

\* Bodies sent with a status outside 200..299 in Spec.
ErrorBodies ==
    TextBodies \cup
    {EmptyBody, BlankBody, TruncatedBody, SyntaxBody,
     ValueBody(JObject([n \in {"error"} |-> JString("id-a")]), FALSE),
     ValueBody(JObject([n \in {"uuid"} |-> JString("id-a")]), FALSE),
     ValueBody(JObject([n \in {"uuids"} |-> JArray(<<StrElem("id-a"), StrElem("id-b")>>)]), FALSE)}

BodiesFor(status) == IF IsErrorStatus(status) THEN ErrorBodies ELSE Bodies

InitCalls ==
    /\ pc = [i \in Calls |-> "idle"]
    /\ call = [i \in Calls |-> NoCall]
    /\ req = [i \in Calls |-> NoRequest]
    /\ resp = [i \in Calls |-> NoResponse]
    /\ read = [i \in Calls |-> ReadOK]
    /\ ret = [i \in Calls |-> NoReturn]
    /\ origin = [i \in Calls |-> NoCause]
    /\ sends = [i \in Calls |-> 0]
    /\ closed = [i \in Calls |-> 0]

\* One call, every argument and every response.
Init ==
    /\ InitClient(BuiltWith, Literals)
    /\ \E c \in {"nil", "live"} : ctx = [i \in Calls |-> IF i = 1 THEN c ELSE "live"]
    /\ InitCalls

Next ==
    \E i \in {1} :
        \/ UUIDv1(i)
        \/ UUIDv4(i)
        \/ UUIDv7(i)
        \/ ULID(i)
        \/ \E version \in VersionInputs, count \in CountInputs : UUIDBatch(i, version, count)
        \/ \E count \in CountInputs : ULIDBatch(i, count)
        \/ doRequestNilHolder(i)
        \/ \E e \in TransportErrors \cup {ContextCanceled} : DoFails(i, e)
        \/ \E status \in StatusInputs : \E body \in BodiesFor(status) : DoReturns(i, status, body)
        \/ \E rd \in {ReadOK, ReadReset, ContextCanceled} : Finish(i, rd)
        \/ Cancel(i)

Spec == Init /\ [][Next]_vars

(* ------------------- concurrent calls on one Client ------------------- *)

\* Arguments and responses of the concurrent specification.
ConcBodies ==
    {TruncatedBody,
     ValueBody(JObject([n \in {"uuid"} |-> JString("id-a")]), FALSE),
     ValueBody(JObject([n \in {"uuid"} |-> JString("id-b")]), FALSE),
     ValueBody(JObject([n \in {"ulid"} |-> JString("id-a")]), FALSE),
     ValueBody(JObject([n \in {"uuids"} |-> JArray(<<StrElem("id-a"), StrElem("id-b")>>)]), FALSE),
     ValueBody(JObject([n \in {"uuids"} |-> JArray(<<StrElem("id-b"), StrElem("id-a")>>)]), FALSE)}

ConcStatuses == {200, 404}

InitConc ==
    /\ InitClient({<<>>}, {ClientOf("", "nil", "")})
    /\ ctx = [i \in Calls |-> "live"]
    /\ InitCalls

NextConc ==
    \E i \in Calls :
        \/ UUIDv4(i)
        \/ ULID(i)
        \/ UUIDBatch(i, "v7", 2)
        \/ DoFails(i, "dial tcp: connection refused")
        \/ \E status \in ConcStatuses : \E body \in ConcBodies : DoReturns(i, status, body)
        \/ Finish(i, ReadOK)

SpecConc == InitConc /\ [][NextConc]_vars

(* ------------------------ NewClient and one call ---------------------- *)

\* The options NewClient may be given: a nil option, and each With...
\* option with an empty (nil) argument and with arguments that are not.
OptionInputs ==
    {NilOption,
     WithBaseURL(""), WithBaseURL(TestBaseURL), WithBaseURL(BadBaseURL),
     WithHTTPClient("nil"), WithHTTPClient(CustomHTTPClient),
     WithUserAgent(""), WithUserAgent("uuidify-go-tests")}

OptionLists == UNION {[1..n -> OptionInputs] : n \in 0..MaxOpts}

InitNew ==
    /\ InitClient(OptionLists, {})
    /\ ctx = [i \in Calls |-> "live"]
    /\ InitCalls

NextNew ==
    \E i \in {1} :
        \/ UUIDv4(i)
        \/ DoFails(i, "dial tcp: connection refused")
        \/ \E status \in ConcStatuses : DoReturns(i, status, TruncatedBody)
        \/ Finish(i, ReadOK)

SpecNew == InitNew /\ [][NextNew]_vars

(* --------------------------- buildURL alone --------------------------- *)

\* Parameter names and values of the maps handed to buildURL: the empty
\* name, a name and values with bytes that need escaping.
QueryNames == {"", "&", "count", "version"}

QueryValues(name) ==
    CASE name = "version" -> {Text("v4"), <<"a", " ", "+", "&", "=">>}
      [] name = "count" -> {Itoa(10)}
      [] OTHER -> {<<"x", "=">>}

QueryMaps ==
    UNION {{q \in [S -> UNION {QueryValues(n) : n \in QueryNames}] :
               \A n \in S : q[n] \in QueryValues(n)} : S \in SUBSET QueryNames}

\* The two callers of buildURL.
URLCalls == {1, 2}

URLLiterals ==
    {ClientOf("", "nil", ""), ClientOf(BadBaseURL, CustomHTTPClient, "uuidify-go-tests")}

InitURL ==
    /\ InitClient({<<>>, <<WithBaseURL(TestBaseURL)>>}, URLLiterals)
    /\ ctx = [i \in Calls |-> "live"]
    /\ pc = [i \in Calls |-> "idle"]
    /\ \E q1, q2 \in QueryMaps :
          call = [i \in Calls |-> CASE i = 1 -> [NoCall EXCEPT !.query = q1]
                                     [] i = 2 -> [NoCall EXCEPT !.query = q2]
                                     [] OTHER -> NoCall]
    /\ req = [i \in Calls |-> NoRequest]
    /\ resp = [i \in Calls |-> NoResponse]
    /\ read = [i \in Calls |-> ReadOK]
    /\ ret = [i \in Calls |-> NoReturn]
    /\ origin = [i \in Calls |-> NoCause]
    /\ sends = [i \in Calls |-> 0]
    /\ closed = [i \in Calls |-> 0]

NextURL ==
    \E i \in URLCalls : \E order \in IterationOrders(call[i].query) : buildURLCall(i, order)

SpecURL == InitURL /\ [][NextURL]_vars

(* ------------------------- vocabulary of the claims ------------------- *)

SingleOps == {"UUIDv1", "UUIDv4", "UUIDv7", "ULID"}

BatchOps == {"UUIDBatch", "ULIDBatch"}

Invoked(i) == call[i].op # "none"

Sent(i) == sends[i] >= 1

Done(i) == pc[i] = "done"

GotResponse(i) == resp[i].StatusCode # 0

Is2xx(code) == code \in 200..299

\* The `version` value each operation is documented to request.
ExpectedVersion(i) ==
    CASE call[i].op = "UUIDv1" -> "v1"
      [] call[i].op = "UUIDv4" -> "v4"
      [] call[i].op = "UUIDv7" -> "v7"
      [] call[i].op \in {"ULID", "ULIDBatch"} -> "ulid"
      [] OTHER -> call[i].version

\* The member name of the single-identifier and of the list shape.
SingleName(i) == IF call[i].op \in {"ULID", "ULIDBatch"} THEN "ulid" ELSE "uuid"

ListName(i) == IF call[i].op = "ULIDBatch" THEN "ulids" ELSE "uuids"

\* The body is a JSON object holding a string under `name`.
HoldsString(body, name) ==
    /\ body.form = "value"
    /\ body.val.t = "object"
    /\ name \in DOMAIN body.val.m
    /\ body.val.m[name].t = "string"

\* The body is a JSON object holding an array of strings under `name`.
HoldsStrings(body, name) ==
    /\ body.form = "value"
    /\ body.val.t = "object"
    /\ name \in DOMAIN body.val.m
    /\ body.val.m[name].t = "array"
    /\ \A k \in 1..Len(body.val.m[name].a) : body.val.m[name].a[k].t = "string"

\* The call got a 2xx response and its body was read without a read error.
Read2xx(i) ==
    Done(i) /\ GotResponse(i) /\ Is2xx(resp[i].StatusCode) /\ read[i] = ReadOK

NoResult(i) == ret[i].str = "" /\ ret[i].slice.nil

SupportedBatch(i) ==
    \/ call[i].op = "ULIDBatch"
    \/ call[i].op = "UUIDBatch" /\ call[i].version \in {"v1", "v4", "v7"}

(* ------------------------------- claims ------------------------------- *)

\* C1: each single fetch (UUIDv1, UUIDv4, UUIDv7, ULID) hands the transport
\* at most one GET, whose `version` parameter is the kind of the operation
\* and which has no `count` parameter; when the response is 2xx and its body
\* is a JSON object holding a string under `uuid` (`ulid` for ULID), the
\* operation returns exactly that string and a nil error.
C1_SingleFetch ==
    \A i \in Calls :
        call[i].op \in SingleOps =>
            /\ sends[i] <= 1
            /\ Sent(i) \/ ret[i].err.type = "RequestError"
            /\ Sent(i) =>
                  /\ req[i].Method = "GET"
                  /\ QueryHas(req[i].URL, "version")
                  /\ QueryGet(req[i].URL, "version") = <<ExpectedVersion(i)>>
                  /\ ~QueryHas(req[i].URL, "count")
            /\ (Read2xx(i) /\ HoldsString(resp[i].Body, SingleName(i))) =>
                  /\ ret[i].err.type = "nil"
                  /\ ret[i].str = resp[i].Body.val.m[SingleName(i)].s

C1_Witness ==
    \E i \in Calls :
        /\ call[i].op = "ULID"
        /\ Read2xx(i)
        /\ resp[i].StatusCode = 299
        /\ HoldsString(resp[i].Body, "ulid")
        /\ ret[i].str = "id-b"
        /\ ret[i].err.type = "nil"

\* C2: UUIDBatch(kind, count) with a supported kind, and ULIDBatch(count),
\* with 1 < count <= 1000, hand the transport at most one GET carrying
\* version=kind (ulid for ULIDBatch) and count=count in decimal; when the
\* response is 2xx and its body is a JSON object holding an array of strings
\* under `uuids` (`ulids`), the operation returns those strings, as many and
\* in the same order, and a nil error.
C2_BatchFetch ==
    \A i \in Calls :
        (SupportedBatch(i) /\ call[i].count > 1 /\ call[i].count <= 1000) =>
            /\ sends[i] <= 1
            /\ Sent(i) \/ ret[i].err.type = "RequestError"
            /\ Sent(i) =>
                  /\ req[i].Method = "GET"
                  /\ QueryHas(req[i].URL, "version")
                  /\ QueryGet(req[i].URL, "version") = <<ExpectedVersion(i)>>
                  /\ QueryHas(req[i].URL, "count")
                  /\ Atoi(QueryGet(req[i].URL, "count")) = call[i].count
            /\ (Read2xx(i) /\ HoldsStrings(resp[i].Body, ListName(i))) =>
                  LET arr == resp[i].Body.val.m[ListName(i)].a
                  IN  /\ ret[i].err.type = "nil"
                      /\ Len(ret[i].slice.elems) = Len(arr)
                      /\ \A k \in 1..Len(arr) : ret[i].slice.elems[k] = arr[k].s

C2_Witness ==
    \E i \in Calls :
        /\ call[i].op = "UUIDBatch"
        /\ call[i].version = "v7"
        /\ call[i].count = 1000
        /\ Read2xx(i)
        /\ QueryGet(req[i].URL, "count") = <<"1", "0", "0", "0">>
        /\ ret[i].err.type = "nil"
        /\ ret[i].slice.elems = <<"id-b", "id-a">>

\* C3: UUIDBatch(kind, 1) with a supported kind, and ULIDBatch(1), send a
\* request without a `count` parameter, decode the single-identifier shape
\* and on success return a sequence of exactly that one string.
C3_BatchOfOneOmitsCount ==
    \A i \in Calls :
        (SupportedBatch(i) /\ call[i].count = 1) =>
            /\ Sent(i) => ~QueryHas(req[i].URL, "count")
            /\ (Read2xx(i) /\ HoldsString(resp[i].Body, SingleName(i))) =>
                  /\ ret[i].err.type = "nil"
                  /\ ret[i].slice.elems = <<resp[i].Body.val.m[SingleName(i)].s>>

\* C4: UUIDBatch with a supported kind, and ULIDBatch, called with
\* count <= 0 or count > 1000, return a nil result and a validation error,
\* and the transport is not invoked.
C4_CountRejected ==
    \A i \in Calls :
        (SupportedBatch(i) /\ (call[i].count <= 0 \/ call[i].count > 1000)) =>
            /\ Done(i)
            /\ ret[i].slice.nil
            /\ ret[i].err.type = "validation"
            /\ sends[i] = 0
            /\ ~GotResponse(i)

C4_Witness ==
    /\ \E i \in Calls : call[i].op = "UUIDBatch" /\ call[i].version = "v4"
                        /\ call[i].count = 0 /\ ret[i].err.type = "validation"

\* C5: UUIDBatch with a version outside {v1, v4, v7}, whatever the count,
\* returns a nil result and a validation error, and the transport is not
\* invoked.
C5_VersionRejected ==
    \A i \in Calls :
        (call[i].op = "UUIDBatch" /\ call[i].version \notin {"v1", "v4", "v7"}) =>
            /\ Done(i)
            /\ ret[i].slice.nil
            /\ ret[i].err.type = "validation"
            /\ sends[i] = 0
            /\ ~GotResponse(i)

C5_Witness ==
    \E i \in Calls : /\ call[i].op = "UUIDBatch" /\ call[i].version = "ulid"
                     /\ call[i].count = 2 /\ ret[i].err.type = "validation"

\* C6: whenever an operation got a response whose status code is outside
\* 200..299, it returns an APIError carrying that status code and no
\* result, whatever the body holds.
C6_StatusOutside2xx ==
    \A i \in Calls :
        (Done(i) /\ GotResponse(i) /\ ~Is2xx(resp[i].StatusCode)) =>
            /\ ret[i].err.type = "APIError"
            /\ ret[i].err.StatusCode = resp[i].StatusCode
            /\ NoResult(i)

C6_Witness ==
    \E i \in Calls :
        /\ Done(i)
        /\ resp[i].StatusCode = 300
        /\ call[i].op = "UUIDv4"
        /\ HoldsString(resp[i].Body, "uuid")
        /\ ret[i].err.type = "APIError"

\* C7: a 2xx response whose body is not one well-formed JSON text
\* (truncated, malformed, or no bytes at all) makes the operation fail with
\* a DecodeError that carries the parse cause; it never succeeds.
C7_MalformedBodyFails ==
    \A i \in Calls :
        (Read2xx(i) /\ call[i].op \in SingleOps \cup BatchOps
            /\ ~WellFormedJSON(resp[i].Body)) =>
            /\ ret[i].err.type = "DecodeError"
            /\ Unwrap(ret[i].err) \in {ErrUnexpectedEOF, SyntaxError}

\* C8: every failure before a response is obtained (nil client, a base
\* address that does not parse, request construction, the transport's
\* error) makes the operation return a RequestError whose Unwrap is the
\* original cause, and no result.
C8_RequestErrorKeepsCause ==
    \A i \in Calls :
        /\ (Invoked(i) /\ call[i].T # NoHolder /\ client.isNil) =>
              Done(i) /\ ret[i].err.type = "RequestError" /\ Unwrap(ret[i].err) = ClientIsNil
        /\ (Invoked(i) /\ call[i].T # NoHolder /\ ~client.isNil /\ client.BaseURL = BadBaseURL) =>
              Done(i) /\ ret[i].err.type = "RequestError" /\ Unwrap(ret[i].err) = ParseError
        /\ origin[i] # NoCause =>
              /\ Done(i)
              /\ ret[i].err.type = "RequestError"
              /\ Unwrap(ret[i].err) = origin[i]
              /\ NoResult(i)
        /\ (Done(i) /\ call[i].T # NoHolder /\ ~GotResponse(i)) =>
              ret[i].err.type = "RequestError" /\ Unwrap(ret[i].err) # NoCause

C8_Witness ==
    \E i \in Calls :
        /\ Done(i)
        /\ Sent(i)
        /\ origin[i] = "dial tcp: connection refused"
        /\ Unwrap(ret[i].err) = "dial tcp: connection refused"

\* C9: a call whose context is cancelled before it returns (already at the
\* invocation, while sending, while waiting, or while the body is read)
\* returns a RequestError: never a result, an APIError or a DecodeError.
\* The cancellation counts once the call can observe it: no response was
\* obtained yet, or the read of the body was cut short by it.
C9_CancelledEndsInRequestError ==
    \A i \in Calls :
        (/\ Done(i)
         /\ call[i].T # NoHolder
         /\ ctx[i] = "cancelled"
         /\ ~GotResponse(i) \/ read[i] = ContextCanceled) =>
            ret[i].err.type = "RequestError"

\* C10: calls running concurrently on one Client do not interfere: each
\* request carries the parameters of its own call, and each call returns
\* what its own response holds (its identifiers, its status code, its
\* decode failure), never the outcome of another call.
C10_NoInterference ==
    \A i \in Calls :
        /\ Sent(i) =>
              /\ QueryGet(req[i].URL, "version") = <<ExpectedVersion(i)>>
              /\ QueryHas(req[i].URL, "count") =>
                    Atoi(QueryGet(req[i].URL, "count")) = call[i].count
        /\ (Done(i) /\ Sent(i) /\ ~GotResponse(i)) => ret[i].err.type = "RequestError"
        /\ (Done(i) /\ GotResponse(i)) =>
              LET body == resp[i].Body
              IN  CASE ~Is2xx(resp[i].StatusCode) ->
                          /\ ret[i].err.type = "APIError"
                          /\ ret[i].err.StatusCode = resp[i].StatusCode
                    [] body.form # "value" -> ret[i].err.type = "DecodeError"
                    [] call[i].op \in SingleOps /\ HoldsString(body, SingleName(i)) ->
                          ret[i].err.type = "nil" /\ ret[i].str = body.val.m[SingleName(i)].s
                    [] call[i].op \in SingleOps -> ret[i].err.type = "nil" /\ ret[i].str = ""
                    [] HoldsStrings(body, ListName(i)) ->
                          /\ ret[i].err.type = "nil"
                          /\ Len(ret[i].slice.elems) = Len(body.val.m[ListName(i)].a)
                          /\ \A k \in 1..Len(ret[i].slice.elems) :
                                ret[i].slice.elems[k] = body.val.m[ListName(i)].a[k].s
                    [] OTHER -> NoResult(i)

C10_Witness ==
    \E i, j \in Calls :
        /\ i # j
        /\ call[i].op = "UUIDv4" /\ call[j].op = "UUIDv4"
        /\ Done(i) /\ Done(j)
        /\ ret[i].str = "id-a" /\ ret[j].str = "id-b"
        /\ ret[i].err.type = "nil" /\ ret[j].err.type = "nil"

\* C11: no operation retries: in every execution of UUIDv1, UUIDv4, UUIDv7,
\* ULID, UUIDBatch or ULIDBatch the transport is invoked at most once,
\* whatever the outcome (success, RequestError, APIError, DecodeError), and
\* not at all when the validation of the arguments or the construction of
\* the URL or of the request fails.
C11_NoRetry ==
    \A i \in Calls :
        /\ sends[i] <= 1
        /\ (Done(i) /\ ret[i].err.type \in {"nil", "APIError", "DecodeError"}) => sends[i] = 1
        /\ (Done(i) /\ ret[i].err.type = "validation") => sends[i] = 0
        /\ (Done(i) /\ origin[i] \in {ClientIsNil, ParseError, NewRequestError}) => sends[i] = 0
        /\ (Done(i) /\ origin[i] \in TransportErrors \cup {ContextCanceled}) => sends[i] = 1

C11_Witness ==
    \E i \in Calls :
        /\ Done(i)
        /\ call[i].op = "UUIDBatch"
        /\ origin[i] \in TransportErrors
        /\ ret[i].err.type = "RequestError"
        /\ sends[i] = 1

\* C12: the client configuration is immutable after construction: no step
\* of any operation, on any path and for any Client value (one whose
\* HTTPClient field is nil included), changes the BaseURL, HTTPClient or
\* UserAgent field of the Client.
C12_ConfigImmutable ==
    [][/\ client'.BaseURL = client.BaseURL
       /\ client'.HTTPClient = client.HTTPClient
       /\ client'.UserAgent = client.UserAgent]_vars

\* C13: whenever the transport returned a response, the body stream of that
\* response has been closed exactly once when the operation returns, on
\* every exit path (success, APIError, DecodeError, and the early return
\* taken when no result holder is supplied); it is never closed twice, and
\* nothing is closed when no response was obtained.
C13_BodyClosedOnce ==
    \A i \in Calls :
        /\ closed[i] <= 1
        /\ (Done(i) /\ GotResponse(i)) => closed[i] = 1
        /\ ~GotResponse(i) => closed[i] = 0
        /\ (Done(i) /\ ret[i].err.type \in {"APIError", "DecodeError"}) => closed[i] = 1
        /\ (Done(i) /\ Sent(i) /\ ret[i].err.type = "nil") => closed[i] = 1

C13_Witness ==
    \E i \in Calls :
        /\ Done(i)
        /\ call[i].op = "doRequest"
        /\ call[i].T = NoHolder
        /\ resp[i].StatusCode = 200
        /\ resp[i].Body = SyntaxBody
        /\ ret[i].err.type = "nil"
        /\ closed[i] = 1

\* C14: every request handed to the transport carries a User-Agent header
\* equal to the UserAgent the Client is configured with, or to the default
\* `uuidify-go-sdk/1.0` when the configured value is empty; no request is
\* sent without the header.
C14_UserAgentSent ==
    \A i \in Calls :
        Sent(i) =>
            /\ req[i].UserAgent # ""
            /\ client.UserAgent # "" => req[i].UserAgent = client.UserAgent
            /\ client.UserAgent = "" => req[i].UserAgent = "uuidify-go-sdk/1.0"

C14_Witness ==
    \E i \in Calls :
        /\ Sent(i)
        /\ client.UserAgent = ""
        /\ req[i].UserAgent = "uuidify-go-sdk/1.0"

\* Positions in a text of runs: the bytes are numbered from 1.
RECURSIVE ByteLen(_)
ByteLen(bytes) == IF Len(bytes) = 0 THEN 0 ELSE Head(bytes).n + ByteLen(Tail(bytes))

RunStart(bytes, j) == 1 + ByteLen(SubSeq(bytes, 1, j - 1))

RunEnd(bytes, j) == ByteLen(SubSeq(bytes, 1, j))

ChAt(bytes, k) ==
    bytes[CHOOSE j \in 1..Len(bytes) : RunStart(bytes, j) <= k /\ k <= RunEnd(bytes, j)].ch

MinOf(S) == CHOOSE k \in S : \A l \in S : k <= l

MaxOf(S) == CHOOSE k \in S : \A l \in S : l <= k

\* The bytes at the positions lo..hi of a text.
Between(bytes, lo, hi) ==
    LET clipped == [j \in 1..Len(bytes) |->
                       Run(bytes[j].ch,
                           MinOf({RunEnd(bytes, j), hi}) - MaxOf({RunStart(bytes, j), lo}) + 1)]
    IN  SelectSeq(clipped, LAMBDA r : r.n > 0)

\* The positions among the first 4096 bytes of a text that hold a byte
\* other than white space and lie at an end of a run or at the limit.
TextEdges(bytes) ==
    LET limit == MinOf({4096, ByteLen(bytes)})
        edges == {RunStart(bytes, j) : j \in 1..Len(bytes)}
                     \cup {RunEnd(bytes, j) : j \in 1..Len(bytes)} \cup {limit}
    IN  {k \in edges : 1 <= k /\ k <= limit /\ ChAt(bytes, k) \notin WhiteSpace}

\* The first 4096 bytes of a text without the white space at their ends.
TrimmedHead(bytes) ==
    IF TextEdges(bytes) = {} THEN <<>>
    ELSE Between(bytes, MinOf(TextEdges(bytes)), MaxOf(TextEdges(bytes)))

MessageIsEmpty(m) == m.from = "none" \/ (m.from = "literal" /\ m.text = "")

\* The call ended on a response with a status outside 200..299 whose body
\* was read without a read error.
ReadNon2xx(i) ==
    Done(i) /\ GotResponse(i) /\ ~Is2xx(resp[i].StatusCode) /\ read[i] = ReadOK

\* C15: for a response outside 200..299, APIError.Message is the text of
\* at most the first 4096 bytes of the body without the white space at its
\* ends; when the body is empty the message is the standard reason string
\* of the status code; the message is non-empty for every such status code.
C15_MessageNeverEmpty ==
    \A i \in Calls :
        ReadNon2xx(i) =>
            /\ TrimmedHead(resp[i].Body.bytes) # <<>> =>
                   /\ ret[i].err.Message.from = "body"
                   /\ ret[i].err.Message.bytes = TrimmedHead(resp[i].Body.bytes)
            /\ resp[i].Body.bytes = <<>> =>
                   ret[i].err.Message = Literal(StatusText(resp[i].StatusCode))
            /\ ~MessageIsEmpty(ret[i].err.Message)

\* C15 (amended): for a response outside 200..299, APIError.Message is the
\* text of at most the first 4096 bytes of the body without the white
\* space at its ends whenever the read succeeds and that text is not
\* empty; otherwise (the body is empty, its first 4096 bytes are white
\* space only, or the read fails) the message is the standard reason string
\* of the status code, which is the empty string for a status code that
\* has no registered reason.
C15_MessageOrReason ==
    \A i \in Calls :
        (Done(i) /\ GotResponse(i) /\ ~Is2xx(resp[i].StatusCode)) =>
            LET m == ret[i].err.Message
                head == TrimmedHead(resp[i].Body.bytes)
            IN  /\ ret[i].err.type = "APIError"
                /\ (read[i] = ReadOK /\ head # <<>>) =>
                       /\ m.from = "body"
                       /\ m.bytes = head
                       /\ ByteLen(m.bytes) <= 4096
                       /\ m.bytes[1].ch \notin WhiteSpace
                       /\ m.bytes[Len(m.bytes)].ch \notin WhiteSpace
                /\ (read[i] # ReadOK \/ head = <<>>) =>
                       m = Literal(StatusText(resp[i].StatusCode))
                /\ MessageIsEmpty(m) <=>
                       /\ read[i] # ReadOK \/ head = <<>>
                       /\ resp[i].StatusCode \in {199, 599}

C15_Witness ==
    \E i \in Calls :
        /\ ReadNon2xx(i)
        /\ resp[i].StatusCode = 599
        /\ resp[i].Body.bytes = <<Run("x", 4094), Run(" ", 2), Run("y", 1)>>
        /\ ret[i].err.Message.bytes = <<Run("x", 4094)>>

\* C16: no operation partially populates its output on failure: whenever
\* an operation returns a non-nil error (validation, RequestError, APIError
\* or DecodeError, a decode that fails after some array elements were
\* already parsed included), the returned value is the empty string for a
\* single fetch and a nil sequence for a batch fetch.
C16_NoPartialResult ==
    \A i \in Calls :
        (Done(i) /\ ret[i].err.type # "nil") =>
            /\ ret[i].str = ""
            /\ ret[i].slice.nil
            /\ ret[i].slice.elems = <<>>

C16_Witness ==
    \E i \in Calls :
        /\ Read2xx(i)
        /\ call[i].op = "UUIDBatch"
        /\ call[i].count = 2
        /\ "uuids" \in DOMAIN resp[i].Body.val.m
        /\ resp[i].Body.val.m["uuids"] = JArray(<<StrElem("id-a"), NumElem>>)
        /\ ret[i].err.type = "DecodeError"
        /\ Unwrap(ret[i].err) = UnmarshalTypeError
        /\ ret[i].slice.nil

\* The first byte of each parameter name of the model, for the byte order
\* of the names.
NameRank(name) ==
    CASE name = "" -> 0
      [] name = "&" -> 38
      [] name = "count" -> 99
      [] name = "version" -> 118

\* Bytes that may not appear as themselves in an encoded name or value.
Reserved == {" ", "&", "="}

BuiltURL(i) == Done(i) /\ call[i].op = "buildURL"

C17_Result ==
    /\ \A i \in Calls :
          BuiltURL(i) =>
              LET q == call[i].query
                  rq == req[i].URL.RawQuery
              IN  IF client.BaseURL = BadBaseURL
                  THEN origin[i] = ParseError /\ req[i].URL = NoURL
                  ELSE /\ origin[i] = NoCause
                       /\ req[i].URL.base = IF client.BaseURL = "" THEN "https://api.uuidify.io"
                                             ELSE client.BaseURL
                       /\ Len(rq) = Cardinality((DOMAIN q) \ {""})
                       /\ {UnescapeChar(rq[k][1]) : k \in 1..Len(rq)} = (DOMAIN q) \ {""}
                       /\ \A k \in 1..Len(rq) :
                             /\ rq[k][1] \notin Reserved
                             /\ \A l \in 1..Len(rq[k][2]) : rq[k][2][l] \notin Reserved
                             /\ QueryUnescape(rq[k][2]) = q[UnescapeChar(rq[k][1])]
                       /\ \A k, l \in 1..Len(rq) :
                             k < l => NameRank(UnescapeChar(rq[k][1]))
                                          < NameRank(UnescapeChar(rq[l][1]))
    /\ \A i, j \in Calls :
          (BuiltURL(i) /\ BuiltURL(j) /\ call[i].query = call[j].query) =>
              req[i].URL = req[j].URL /\ origin[i] = origin[j]

C17_MapUntouched == \A i \in Calls : call'[i].query = call[i].query

\* C17: buildURL is deterministic and pure: for a given base address and a
\* given parameter mapping it produces the same URL whatever the order in
\* which the mapping is iterated, with the parameters URL-encoded and
\* ordered by name ascending, the entries whose name is empty left out,
\* and the mapping it was given left unmodified.
C17_BuildURLPure == []C17_Result /\ [][C17_MapUntouched]_vars

C17_Witness ==
    /\ BuiltURL(1)
    /\ BuiltURL(2)
    /\ DOMAIN call[1].query = {"", "&", "count", "version"}
    /\ call[1].query = call[2].query
    /\ req[1].URL = req[2].URL
    /\ req[1].URL.RawQuery =
           << <<"%26", <<"x", "%3D">> >>,
              <<"count", <<"1", "0">> >>,
              <<"version", <<"a", "+", "%2B", "%26", "%3D">> >> >>

\* The argument of the last option of the given kind in a list of options,
\* "" ("nil" for an HTTP client) when the list holds none.
OptionsOfKind(opts, kind) == {k \in 1..Len(opts) : opts[k].opt = kind}

LastArg(opts, kind, none) ==
    IF OptionsOfKind(opts, kind) = {} THEN none
    ELSE opts[MaxOf(OptionsOfKind(opts, kind))].arg

\* C18: for every list of options passed to NewClient (nil options,
\* WithBaseURL(""), WithHTTPClient(nil), WithUserAgent("") and repeated
\* options, of which the last one applied wins, included), the Client has a
\* non-empty BaseURL, a non-nil HTTPClient and a non-empty UserAgent, each
\* the documented default unless the last option for it gave a non-empty
\* value; the Client stays so through every call, so the lazy HTTPClient
\* initialisation of doRequest is never reached.
C18_NewClientDefaults ==
    LET base == LastArg(options, "WithBaseURL", "")
        hc == LastArg(options, "WithHTTPClient", "nil")
        ua == LastArg(options, "WithUserAgent", "")
    IN  /\ ~client.isNil
        /\ client.BaseURL # ""
        /\ client.HTTPClient # "nil"
        /\ client.UserAgent # ""
        /\ client.BaseURL = IF base = "" THEN "https://api.uuidify.io" ELSE base
        /\ client.HTTPClient = IF hc = "nil" THEN DefaultHTTPClient ELSE hc
        /\ client.UserAgent = IF ua = "" THEN "uuidify-go-sdk/1.0" ELSE ua

C18_Witness ==
    /\ options = <<WithUserAgent("uuidify-go-tests"), WithHTTPClient("nil"), WithUserAgent("")>>
    /\ client = ClientOf("https://api.uuidify.io", DefaultHTTPClient, "uuidify-go-sdk/1.0")
    /\ Done(1)
    /\ Sent(1)
    /\ GotResponse(1)

\* The one outcome the order of the checks gives a finished call: the
\* first check that fails decides it.
BadVersion(i) == call[i].op = "UUIDBatch" /\ call[i].version \notin {"v1", "v4", "v7"}

BadCount(i) == call[i].op \in BatchOps /\ (call[i].count < 1 \/ call[i].count > 1000)

OutcomeClasses == {"nil", "validation", "RequestError", "APIError", "DecodeError"}

\* C19: the checks are applied in a fixed order, so each call has exactly
\* one outcome class: UUIDBatch checks the version before the count (an
\* unsupported version with an out-of-range count reports the version
\* error), both checks come before the nil-client check and before any URL
\* is built, the status-code check comes before decoding, and every call
\* ends in exactly one of success, validation error, RequestError, APIError
\* and DecodeError.
C19_CheckOrder ==
    \A i \in Calls :
        (Done(i) /\ call[i].op \in SingleOps \cup BatchOps) =>
            LET e == ret[i].err
            IN  /\ e.type \in OutcomeClasses
                /\ e.type = "nil" \/ NoResult(i)
                /\ CASE BadVersion(i) ->
                           /\ e = ValidationError("version must be one of v1, v4, v7")
                           /\ origin[i] = NoCause /\ sends[i] = 0 /\ req[i] = NoRequest
                      [] BadCount(i) ->
                           /\ e = ValidationError("count must be between 1 and 1000")
                           /\ origin[i] = NoCause /\ sends[i] = 0 /\ req[i] = NoRequest
                      [] client.isNil -> e = RequestError(ClientIsNil) /\ sends[i] = 0
                      [] client.BaseURL = BadBaseURL -> e = RequestError(ParseError) /\ sends[i] = 0
                      [] ~GotResponse(i) -> e.type = "RequestError"
                      [] ~Is2xx(resp[i].StatusCode) ->
                           e.type = "APIError" /\ e.StatusCode = resp[i].StatusCode
                      [] OTHER -> e.type \in {"nil", "DecodeError"}
                /\ e.type = "DecodeError" =>
                       /\ GotResponse(i)
                       /\ Is2xx(resp[i].StatusCode)
                       /\ Decode(resp[i].Body, read[i], call[i].T, ZeroValue).err # NoCause
                /\ e.type = "nil" =>
                       /\ GotResponse(i)
                       /\ Is2xx(resp[i].StatusCode)
                       /\ Decode(resp[i].Body, read[i], call[i].T, ZeroValue).err = NoCause

C19_Witness ==
    \E i \in Calls :
        /\ Done(i)
        /\ client.isNil
        /\ call[i].op = "UUIDBatch"
        /\ call[i].version = "v9"
        /\ call[i].count = 1001
        /\ ret[i].err = ValidationError("version must be one of v1, v4, v7")

\* The call read a 2xx response whose body is one JSON object without the
\* member the requested shape declares.
LacksExpectedKey(i) ==
    /\ Read2xx(i)
    /\ call[i].op \in SingleOps \cup BatchOps
    /\ resp[i].Body.form = "value"
    /\ resp[i].Body.val.t = "object"
    /\ call[i].T.json \notin DOMAIN resp[i].Body.val.m

\* For count > 1 the sequence returned is the array of the response,
\* whatever count was requested.
LengthNotChecked(i) ==
    (Read2xx(i) /\ call[i].op \in BatchOps /\ call[i].count > 1
        /\ HoldsStrings(resp[i].Body, ListName(i))) =>
        /\ ret[i].err.type = "nil"
        /\ Len(ret[i].slice.elems) = Len(resp[i].Body.val.m[ListName(i)].a)

\* C20: success does not depend on the response having the requested
\* shape: a 2xx response whose body is a JSON object lacking the expected
\* key (for example {}) yields a nil error with the empty string for a
\* single fetch and an empty or nil sequence for a batch fetch, and for
\* count > 1 the length of the returned sequence is that of the array in
\* the response and is not checked against the requested count.
C20_EmptyResultWithoutKey ==
    \A i \in Calls :
        /\ LacksExpectedKey(i) =>
              /\ ret[i].err.type = "nil"
              /\ call[i].op \in SingleOps => ret[i].str = ""
              /\ call[i].op \in BatchOps => Len(ret[i].slice.elems) = 0
        /\ LengthNotChecked(i)

\* C20 (amended): a 2xx response whose body is a JSON object lacking the
\* expected key yields a nil error with the empty string for a single
\* fetch, a nil sequence for a batch fetch with count > 1, and a sequence
\* of one empty string for a batch fetch with count = 1; for count > 1 the
\* length of the returned sequence is that of the array in the response
\* and is not checked against the requested count.
C20_ShapeNotChecked ==
    \A i \in Calls :
        /\ LacksExpectedKey(i) =>
              /\ ret[i].err.type = "nil"
              /\ call[i].op \in SingleOps => ret[i].str = "" /\ ret[i].slice.nil
              /\ (call[i].op \in BatchOps /\ call[i].count > 1) =>
                     ret[i].slice.nil /\ ret[i].slice.elems = <<>>
              /\ (call[i].op \in BatchOps /\ call[i].count = 1) =>
                     ~ret[i].slice.nil /\ ret[i].slice.elems = <<"">>
        /\ LengthNotChecked(i)

C20_Witness ==
    \E i \in Calls :
        /\ LacksExpectedKey(i)
        /\ call[i].op = "ULIDBatch"
        /\ call[i].count = 1
        /\ resp[i].Body.val.m = NoMembers
        /\ ret[i].err.type = "nil"
        /\ ret[i].slice.elems = <<"">>

====
